---- MODULE Spec2Model ----
(***************************************************************************)
(* Model of the two example MCP servers:                                   *)
(*   advanced_mcp_server.py  resources and tools over a workspace          *)
(*                           directory and a SQLite database notes.db      *)
(*   simple_mcp_server.py    one static resource                           *)
(* The state is the file system the advanced server touches, the two       *)
(* tables of notes.db, SQLite's AUTOINCREMENT counter and the last request *)
(* together with its reply. The created_at / updated_at columns only order *)
(* the result lists, which are sets here, and are left out of the rows.    *)
(***************************************************************************)
EXTENDS Integers, Sequences, FiniteSets, TLC

\* Bounds of the model.
MaxNotes == 2    \* at most this many rows are ever inserted into notes

\* Values of a key of the arguments dict besides ordinary strings.
ABSENT == "<absent>"      \* the key is not in the dict
NULL == "<None>"          \* the key is present with JSON null (Python None)

\* Content marker of a file that holds the SQLite database with both tables.
SQLITE == "<sqlite3 database>"

\* Stands for the default title U+7121 U+984C ("untitled").
DefaultTitle == "mudai"

-----------------------------------------------------------------------------
\* Paths are sequences of components below the root <<>>.

WORK_DIR == <<"srv", "mcp_workspace">>

DB_PATH == WORK_DIR \o <<"notes.db">>

\* The server's own script, Path(__file__): a file next to the workspace.
SCRIPT_PATH == <<"srv", "advanced_mcp_server.py">>

\* The directories that exist; the handlers never create or remove one.
Dirs == {<<>>, <<"srv">>, WORK_DIR}

Parent(p) == IF p = <<>> THEN <<>> ELSE SubSeq(p, 1, Len(p) - 1)

BaseName(p) == IF p = <<>> THEN "" ELSE p[Len(p)]

IsPrefix(d, p) == Len(d) <= Len(p) /\ SubSeq(p, 1, Len(d)) = d

\* A filename argument: None, or a string split into its components.
FnNone == [none |-> TRUE, abs |-> FALSE, parts |-> <<>>]

FnRel(parts) == [none |-> FALSE, abs |-> FALSE, parts |-> parts]

FnAbs(parts) == [none |-> FALSE, abs |-> TRUE, parts |-> parts]

\* WORK_DIR / filename: an absolute right operand replaces the left one.
PathJoin(base, fn) == IF fn.abs THEN fn.parts ELSE base \o fn.parts

\* The file the operating system reaches for a joined path: ".." steps to
\* the parent of the directory walked so far ("/.." is "/").
RECURSIVE Walk(_, _)
Walk(cur, rest) ==
    IF rest = <<>> THEN cur
    ELSE IF Head(rest) = ".." THEN Walk(Parent(cur), Tail(rest))
    ELSE Walk(cur \o <<Head(rest)>>, Tail(rest))

OsResolve(p) == Walk(<<>>, p)

\* Path.exists(): a directory or a file is there.
Exists(f, p) == p \in Dirs \/ p \in DOMAIN f

\* Path.write_text / Path.unlink on a file system f (a function from the
\* paths of the existing files to their contents).
WriteFile(f, p, c) == [q \in DOMAIN f \cup {p} |-> IF q = p THEN c ELSE f[q]]

RemoveFile(f, p) == [q \in DOMAIN f \ {p} |-> f[q]]

\* The files both listings show: everything below WORK_DIR but notes.db.
RglobFiles(f) == {p \in DOMAIN f : IsPrefix(WORK_DIR, p) /\ p # WORK_DIR
                                   /\ BaseName(p) # "notes.db"}

IterdirFiles(f) == {p \in DOMAIN f : Parent(p) = WORK_DIR
                                     /\ BaseName(p) # "notes.db"}

WorkspaceView(f) == [p \in RglobFiles(f) |-> f[p]]

-----------------------------------------------------------------------------
\* SQLite.

\* sqlite3.connect(DB_PATH) creates a zero-byte file when none is there and
\* leaves an existing file alone.
SqliteConnect(f) == IF DB_PATH \in DOMAIN f THEN f ELSE WriteFile(f, DB_PATH, "")

\* A statement on notes or tasks works only while the file is the database
\* init_database made; an empty or overwritten file has no such table.
HasTables(f) == DB_PATH \in DOMAIN f /\ f[DB_PATH] = SQLITE

\* INTEGER PRIMARY KEY AUTOINCREMENT: one more than the largest id ever used.
NextNoteId_reusing(s) == IF s = 0 THEN 1 ELSE s

NextNoteId(s) == s + 1

\* dict.get(key, default)
Get(v, default) == IF v = ABSENT THEN default ELSE v

\* title LIKE %q% OR content LIKE %q% over the strings of the model: the
\* empty pattern matches every row, another one the rows holding it whole.
Like(s, q) == q = "" \/ s = q

-----------------------------------------------------------------------------
VARIABLES
    fs,        \* the files: path -> content
    notes,     \* rows of table notes (empty while the file has no tables)
    tasks,     \* rows of table tasks
    seq,       \* sqlite_sequence entry of notes: the largest id ever used
    reported,  \* the ids the 'note created' replies have carried so far
    last       \* the last request and its reply

vars == <<fs, notes, tasks, seq, reported, last>>

\* An arguments dict. note_id is 0 when the key is not supplied.
NoArgs ==
    [action |-> ABSENT, filename |-> FnNone, content |-> ABSENT,
     title |-> ABSENT, note_id |-> 0, search_query |-> ABSENT,
     command |-> ABSENT, location |-> ABSENT, url |-> ABSENT,
     method |-> ABSENT]

\* handle_list_resources of each server.
ListResources(server) ==
    IF server = "advanced"
    THEN {"mcp://workspace-files", "mcp://notes", "mcp://tasks"}
    ELSE {"sample://greeting"}

\* handle_list_tools of the advanced server: tool name -> the enum of its
\* action / command / method property.
ListTools ==
    [file_operations |-> {"read", "write", "list", "delete"},
     note_manager |-> {"create", "read", "update", "delete", "search"},
     task_manager |-> {"create", "list", "update", "complete", "delete"},
     system_info |-> {"disk_usage", "memory_info", "cpu_info", "current_time",
                      "weather"},
     web_request |-> {"GET", "POST"}]

ToolNames == DOMAIN ListTools

\* The property of each tool that carries the enum.
Selector(name, a) ==
    IF name = "system_info" THEN a.command
    ELSE IF name = "web_request" THEN Get(a.method, "GET")
    ELSE a.action

\* A reply: what the handler hands back to the SDK. outcome is "return"
\* (a list of items TextContent of the given kind) or "raise"; exc names the
\* exception the handler's code ran into, "" when there was none.
Returned(server, op, name, a, kind, body, id) ==
    [server |-> server, op |-> op, name |-> name, args |-> a,
     outcome |-> "return", items |-> 1, kind |-> kind, body |-> body,
     id |-> id, exc |-> ""]

Raised(server, op, name, a, exc) ==
    [server |-> server, op |-> op, name |-> name, args |-> a,
     outcome |-> "raise", items |-> 0, kind |-> "none", body |-> {},
     id |-> 0, exc |-> exc]

\* The outer 'except Exception' of handle_call_tool: the error text.
OuterExcept_reraising(name, a, exc) ==
    Raised("advanced", "call_tool", name, a, exc)

OuterExcept(name, a, exc) ==
    [Returned("advanced", "call_tool", name, a, "error", {}, 0)
        EXCEPT !.exc = exc]

ToolReply(name, a, kind, body, id) ==
    Returned("advanced", "call_tool", name, a, kind, body, id)

\* The final return of handle_call_tool, reached when no branch returned.
UnknownTool(name, a) == ToolReply(name, a, "unknown_tool", {name}, 0)

Init ==
    /\ fs = [p \in {DB_PATH, SCRIPT_PATH} |->
                IF p = DB_PATH THEN SQLITE ELSE "code"]
    /\ notes = {}
    /\ tasks = {}
    /\ seq = 0
    /\ reported = {}
    /\ last = [server |-> "none", op |-> "none", name |-> "", args |-> NoArgs,
               outcome |-> "return", items |-> 0, kind |-> "none",
               body |-> {}, id |-> 0, exc |-> ""]

\* The tables as they are once the file system is f2: gone with the file.
TablesAfter(f2, t) == IF HasTables(f2) THEN t ELSE {}

SeqAfter(f2, s) == IF HasTables(f2) THEN s ELSE 0

\* Every step that changes the files settles the tables with them.
FsStep(f2) ==
    /\ fs' = f2
    /\ notes' = TablesAfter(f2, notes)
    /\ tasks' = TablesAfter(f2, tasks)
    /\ seq' = SeqAfter(f2, seq)

-----------------------------------------------------------------------------
\* The inputs the model draws.

Filenames ==
    {FnNone,                                       \* no filename / null
     FnRel(<<>>),                                  \* ""
     FnRel(<<"a.txt">>),
     FnRel(<<"notes.db">>),
     FnRel(<<"sub", "a.txt">>),                    \* no such directory
     FnRel(<<"..", "advanced_mcp_server.py">>),
     FnAbs(<<"srv", "advanced_mcp_server.py">>)}

FileContents == {ABSENT, NULL, "x"}

Titles == {ABSENT, NULL, "t"}

NoteContents == {ABSENT, NULL, "c"}

Queries == {ABSENT, NULL, "t", "zz"}

Uris == {"mcp://workspace-files", "mcp://notes", "mcp://tasks",
         "sample://greeting", "mcp://other"}

\* Bytes of a text file of the model.
Size(c) == IF c = "" THEN 0 ELSE 1

-----------------------------------------------------------------------------
\* advanced_mcp_server.handle_read_resource

ReadWorkspaceFiles(uri) ==
    /\ last' = Returned("advanced", "read_resource", uri, NoArgs, "json",
                        {[name |-> BaseName(p),
                          path |-> SubSeq(p, Len(WORK_DIR) + 1, Len(p)),
                          size |-> Size(fs[p])] : p \in RglobFiles(fs)}, 0)
    /\ UNCHANGED <<fs, notes, tasks, seq, reported>>

\* ReadTable with the database file opened for writing, which empties it.
ReadTable_truncating(uri, rows) ==
    LET f2 == WriteFile(fs, DB_PATH, "") IN
    /\ FsStep(f2)
    /\ last' = Raised("advanced", "read_resource", uri, NoArgs,
                      "OperationalError")
    /\ UNCHANGED reported

ReadTable(uri, rows) ==
    LET f2 == SqliteConnect(fs) IN
    /\ FsStep(f2)
    /\ last' = IF HasTables(f2)
               THEN Returned("advanced", "read_resource", uri, NoArgs, "json",
                             rows, 0)
               ELSE Raised("advanced", "read_resource", uri, NoArgs,
                           "OperationalError")
    /\ UNCHANGED reported

ReadUnknown(server, uri) ==
    /\ last' = Raised(server, "read_resource", uri, NoArgs, "ValueError")
    /\ UNCHANGED <<fs, notes, tasks, seq, reported>>

HandleReadResource(uri) ==
    \/ uri = "mcp://workspace-files" /\ ReadWorkspaceFiles(uri)
    \/ uri = "mcp://notes" /\ ReadTable(uri, notes)
    \/ uri = "mcp://tasks" /\ ReadTable(uri, tasks)
    \/ /\ uri \notin {"mcp://workspace-files", "mcp://notes", "mcp://tasks"}
       /\ ReadUnknown("advanced", uri)

\* simple_mcp_server.handle_read_resource
SimpleReadGreeting(uri) ==
    /\ last' = Returned("simple", "read_resource", uri, NoArgs, "text",
                        {"Hello from MCP Server! This is a sample resource."},
                        0)
    /\ UNCHANGED <<fs, notes, tasks, seq, reported>>

SimpleHandleReadResource(uri) ==
    \/ uri = "sample://greeting" /\ SimpleReadGreeting(uri)
    \/ uri # "sample://greeting" /\ ReadUnknown("simple", uri)

-----------------------------------------------------------------------------
\* advanced_mcp_server.handle_call_tool, branch file_operations

Frame == UNCHANGED <<fs, notes, tasks, seq, reported>>

Target(fn) == OsResolve(PathJoin(WORK_DIR, fn))

FileList(name, a) ==
    /\ a.action = "list"
    /\ last' = ToolReply(name, a, "file_list",
                         {[name |-> BaseName(p), size |-> Size(fs[p])] :
                             p \in IterdirFiles(fs)}, 0)
    /\ Frame

FileRead(name, a) ==
    /\ a.action = "read"
    /\ Frame
    /\ IF a.filename.none
       THEN last' = OuterExcept(name, a, "TypeError")
       ELSE LET p == Target(a.filename) IN
            IF ~Exists(fs, p)
            THEN last' = ToolReply(name, a, "file_not_found", {}, 0)
            ELSE IF p \in Dirs
            THEN last' = OuterExcept(name, a, "IsADirectoryError")
            ELSE IF fs[p] = SQLITE
            THEN \* whether the database bytes decode as UTF-8 is up to them
                 \/ last' = OuterExcept(name, a, "UnicodeDecodeError")
                 \/ last' = ToolReply(name, a, "file_content", {fs[p]}, 0)
            ELSE last' = ToolReply(name, a, "file_content", {fs[p]}, 0)

FileWrite(name, a) ==
    /\ a.action = "write"
    /\ UNCHANGED reported
    /\ LET content == Get(a.content, "") IN
       IF a.filename.none \/ content = NULL
       THEN /\ last' = OuterExcept(name, a, "TypeError")
            /\ UNCHANGED <<fs, notes, tasks, seq>>
       ELSE LET p == Target(a.filename) IN
            IF p \in Dirs
            THEN /\ last' = OuterExcept(name, a, "IsADirectoryError")
                 /\ UNCHANGED <<fs, notes, tasks, seq>>
            ELSE IF Parent(p) \notin Dirs
            THEN /\ last' = OuterExcept(name, a, "FileNotFoundError")
                 /\ UNCHANGED <<fs, notes, tasks, seq>>
            ELSE /\ FsStep(WriteFile(fs, p, content))
                 /\ last' = ToolReply(name, a, "file_written", {}, 0)

FileDelete(name, a) ==
    /\ a.action = "delete"
    /\ UNCHANGED reported
    /\ IF a.filename.none
       THEN /\ last' = OuterExcept(name, a, "TypeError")
            /\ UNCHANGED <<fs, notes, tasks, seq>>
       ELSE LET p == Target(a.filename) IN
            IF ~Exists(fs, p)
            THEN /\ last' = ToolReply(name, a, "file_not_found", {}, 0)
                 /\ UNCHANGED <<fs, notes, tasks, seq>>
            ELSE IF p \in Dirs
            THEN /\ last' = OuterExcept(name, a, "IsADirectoryError")
                 /\ UNCHANGED <<fs, notes, tasks, seq>>
            ELSE /\ FsStep(RemoveFile(fs, p))
                 /\ last' = ToolReply(name, a, "file_deleted", {}, 0)

\* No branch of the if-chain matches: control leaves the try block.
FileFallThrough(name, a) ==
    /\ a.action \notin {"list", "read", "write", "delete"}
    /\ last' = UnknownTool(name, a)
    /\ Frame

FileOperations(name, a) ==
    \/ FileList(name, a)
    \/ FileRead(name, a)
    \/ FileWrite(name, a)
    \/ FileDelete(name, a)
    \/ FileFallThrough(name, a)

-----------------------------------------------------------------------------
\* advanced_mcp_server.handle_call_tool, branch note_manager. Every action
\* of the branch starts with sqlite3.connect(DB_PATH).

NoteRow(id, title, content) ==
    [id |-> id, title |-> title, content |-> content]

NoteCreate(name, a) ==
    /\ a.action = "create"
    /\ LET f2 == SqliteConnect(fs)
           title == Get(a.title, DefaultTitle)
           content == Get(a.content, "")
       IN
       IF ~HasTables(f2)
       THEN /\ FsStep(f2)
            /\ last' = OuterExcept(name, a, "OperationalError")
            /\ UNCHANGED reported
       ELSE IF title = NULL \/ content = NULL
       THEN \* NOT NULL constraint failed; nothing is committed
            /\ last' = OuterExcept(name, a, "IntegrityError")
            /\ Frame
       ELSE /\ seq < MaxNotes
            /\ LET id == NextNoteId(seq) IN
                 /\ notes' = notes \cup {NoteRow(id, title, content)}
                 /\ seq' = id
                 /\ reported' = reported \cup {id}
                 /\ last' = ToolReply(name, a, "note_created", {title}, id)
            /\ UNCHANGED <<fs, tasks>>

\* The pattern of the LIKE: f"%{query}%" prints None as the text None.
SearchText(q) == IF q = NULL THEN "None" ELSE q

NoteSearch(name, a) ==
    /\ a.action = "search"
    /\ LET f2 == SqliteConnect(fs)
           query == SearchText(Get(a.search_query, ""))
           found == {r \in notes : Like(r.title, query) \/ Like(r.content, query)}
       IN
       /\ FsStep(f2)
       /\ last' = IF ~HasTables(f2)
                  THEN OuterExcept(name, a, "OperationalError")
                  ELSE IF found # {}
                  THEN ToolReply(name, a, "search_results", found, 0)
                  ELSE ToolReply(name, a, "search_empty", {}, 0)
    /\ UNCHANGED reported

\* Any other action: conn.close() and out of the try block.
NoteFallThrough(name, a) ==
    /\ a.action \notin {"create", "search"}
    /\ FsStep(SqliteConnect(fs))
    /\ last' = UnknownTool(name, a)
    /\ UNCHANGED reported

NoteManager(name, a) ==
    \/ NoteCreate(name, a)
    \/ NoteSearch(name, a)
    \/ NoteFallThrough(name, a)

-----------------------------------------------------------------------------
\* branch system_info

SysDiskUsage(name, a) ==
    /\ a.command = "disk_usage"
    /\ \/ last' = ToolReply(name, a, "disk_usage", {}, 0)
       \/ last' = OuterExcept(name, a, "FileNotFoundError")  \* no df
    /\ Frame

SysCurrentTime(name, a) ==
    /\ a.command = "current_time"
    /\ last' = ToolReply(name, a, "current_time", {}, 0)
    /\ Frame

SysWeather(name, a) ==
    /\ a.command = "weather"
    /\ last' = ToolReply(name, a, "weather", {Get(a.location, "Tokyo")}, 0)
    /\ Frame

SysFallThrough(name, a) ==
    /\ a.command \notin {"disk_usage", "current_time", "weather"}
    /\ last' = UnknownTool(name, a)
    /\ Frame

SystemInfo(name, a) ==
    \/ SysDiskUsage(name, a)
    \/ SysCurrentTime(name, a)
    \/ SysWeather(name, a)
    \/ SysFallThrough(name, a)

-----------------------------------------------------------------------------
\* branch web_request, with its own try/except around the request

WebGet(name, a) ==
    /\ Get(a.method, "GET") = "GET"
    /\ \/ /\ a.url \notin {ABSENT, NULL}      \* the server answered
          /\ last' = ToolReply(name, a, "http_response", {}, 0)
       \/ last' = [ToolReply(name, a, "request_error", {}, 0)
                       EXCEPT !.exc = "RequestException"]
    /\ Frame

WebOther(name, a) ==
    /\ Get(a.method, "GET") # "GET"
    /\ last' = ToolReply(name, a, "post_unimplemented", {}, 0)
    /\ Frame

WebRequest(name, a) ==
    \/ WebGet(name, a)
    \/ WebOther(name, a)

-----------------------------------------------------------------------------
\* The names handle_call_tool has a branch for.
Branches == {"file_operations", "note_manager", "system_info", "web_request"}

NoBranch(name, a) ==
    /\ name \notin Branches
    /\ last' = UnknownTool(name, a)
    /\ Frame

HandleCallTool(name, a) ==
    \/ name = "file_operations" /\ FileOperations(name, a)
    \/ name = "note_manager" /\ NoteManager(name, a)
    \/ name = "system_info" /\ SystemInfo(name, a)
    \/ name = "web_request" /\ WebRequest(name, a)
    \/ NoBranch(name, a)

\* The arguments the model sends with each tool name.
ArgsFor(name) ==
    IF name = "file_operations"
    THEN {[NoArgs EXCEPT !.action = act] : act \in {"list", ABSENT}}
         \cup {[NoArgs EXCEPT !.action = act, !.filename = fn] :
                  act \in {"read", "delete"}, fn \in Filenames}
         \cup {[NoArgs EXCEPT !.action = "write", !.filename = fn,
                              !.content = c] :
                  fn \in Filenames, c \in FileContents}
    ELSE IF name = "note_manager"
    THEN {[NoArgs EXCEPT !.action = "create", !.title = t, !.content = c] :
             t \in Titles, c \in NoteContents}
         \cup {[NoArgs EXCEPT !.action = "search", !.search_query = q] :
                  q \in Queries}
         \cup {[NoArgs EXCEPT !.action = act, !.note_id = i] :
                  act \in {"read", "delete"}, i \in 1..MaxNotes}
         \cup {[NoArgs EXCEPT !.action = "update", !.note_id = i,
                              !.title = "t", !.content = "c"] :
                  i \in 1..MaxNotes}
    ELSE IF name = "task_manager"
    THEN {[NoArgs EXCEPT !.action = act] : act \in ListTools.task_manager}
    ELSE IF name = "system_info"
    THEN {[NoArgs EXCEPT !.command = c] :
             c \in ListTools.system_info \cup {ABSENT}}
    ELSE IF name = "web_request"
    THEN {[NoArgs EXCEPT !.url = u, !.method = m] :
             u \in {ABSENT, "http://example.com"},
             m \in {ABSENT, "GET", "POST"}}
    ELSE {NoArgs}

CallNames == ToolNames \cup {"no_such_tool"}

CallTool == \E name \in CallNames : \E a \in ArgsFor(name) : HandleCallTool(name, a)

ReadResource == \E uri \in Uris : HandleReadResource(uri)

SimpleReadResource == \E uri \in Uris : SimpleHandleReadResource(uri)

Next == CallTool \/ ReadResource \/ SimpleReadResource

Spec == Init /\ [][Next]_vars

-----------------------------------------------------------------------------
\* Vocabulary of the properties.

AdvCall(l) == l.server = "advanced" /\ l.op = "call_tool"

AdvRead(l) == l.server = "advanced" /\ l.op = "read_resource"

\* The rows and the listed files a step leaves as they were.
TablesKept == notes' = notes /\ tasks' = tasks

ListingKept == WorkspaceView(fs') = WorkspaceView(fs)

\* While the database file has no tables the model holds no rows.
TypeOK ==
    /\ seq \in 0..MaxNotes
    /\ reported \subseteq 1..MaxNotes
    /\ ~HasTables(fs) => notes = {} /\ seq = 0
    /\ tasks = {}

C2_AdvertisedToolsDispatch ==
    (/\ AdvCall(last)
     /\ last.name \in ToolNames
     /\ Selector(last.name, last.args) \in ListTools[last.name])
    => last.kind # "unknown_tool"

\* C3: a note_manager update of an existing note stores the given title and
\* content in its row, and a delete of an existing note removes its row.
C3_NoteUpdateDelete ==
    [][(/\ AdvCall(last')
        /\ last'.name = "note_manager"
        /\ \E r \in notes : r.id = last'.args.note_id)
       => /\ last'.args.action = "update" =>
               \E r \in notes' : /\ r.id = last'.args.note_id
                                 /\ r.title = last'.args.title
                                 /\ r.content = last'.args.content
          /\ last'.args.action = "delete" =>
               \A r \in notes' : r.id # last'.args.note_id]_vars

\* C4: a file_operations call leaves the rows of notes and tasks unchanged,
\* and a note_manager call leaves the workspace file listing unchanged.
C4_NoFlowBetweenHandlers ==
    [][/\ (AdvCall(last') /\ last'.name = "file_operations") => TablesKept
       /\ (AdvCall(last') /\ last'.name = "note_manager") => ListingKept]_vars

\* C5: a successful note create adds exactly one row with the given title
\* and content (the defaults when the keys are absent), reports an id above
\* every id reported before and not held by any row, and leaves the other
\* rows and the tasks table unchanged.
C5_CreateAutoIncrement ==
    [][last'.kind = "note_created" =>
         /\ \A i \in reported : last'.id > i
         /\ \A r \in notes : r.id # last'.id
         /\ notes' = notes \cup
                {[id |-> last'.id,
                  title |-> IF last'.args.title = ABSENT THEN DefaultTitle
                            ELSE last'.args.title,
                  content |-> IF last'.args.content = ABSENT THEN ""
                              ELSE last'.args.content]}
         /\ Cardinality(notes') = Cardinality(notes) + 1
         /\ tasks' = tasks]_vars

C5_Witness ==
    /\ last.kind = "note_created"
    /\ last.id = 2
    /\ last.args.title = ABSENT
    /\ last.args.content = ABSENT
    /\ Cardinality(notes) = 2

\* C6: a file_operations call reads, creates, overwrites or removes only
\* files inside WORK_DIR: every file outside it stays as it was, and the
\* content a read returns is that of a file inside it.
C6_FileOperationsStayInWorkspace ==
    [][(AdvCall(last') /\ last'.name = "file_operations") =>
         /\ \A p \in DOMAIN fs \cup DOMAIN fs' :
               ~IsPrefix(WORK_DIR, p) =>
                   p \in DOMAIN fs /\ p \in DOMAIN fs' /\ fs'[p] = fs[p]
         /\ last'.kind = "file_content" =>
               IsPrefix(WORK_DIR, Target(last'.args.filename))]_vars

\* C7: in both servers handle_read_resource returns content for every URI
\* handle_list_resources lists and raises ValueError for every other URI.
C7_ListedResourcesReadable ==
    last.op = "read_resource" =>
        IF last.name \in ListResources(last.server)
        THEN last.outcome = "return"
        ELSE last.outcome = "raise" /\ last.exc = "ValueError"

\* The requests some branch of handle_call_tool answers.
Answered(l) ==
    \/ l.name = "file_operations"
         /\ l.args.action \in {"list", "read", "write", "delete"}
    \/ l.name = "note_manager" /\ l.args.action \in {"create", "search"}
    \/ l.name = "system_info"
         /\ l.args.command \in {"disk_usage", "current_time", "weather"}
    \/ l.name = "web_request"

====
